---------------------------- MODULE Spec2Model ----------------------------
(***************************************************************************)
(* Model of the audio combination engine of "Add or Subtract Stems":       *)
(* MainWindow._run_lower_volume (the Add Stems tab) and                    *)
(* MainWindow._process_subtract_stems (the Subtract stems tab) of          *)
(* src/main_window.py, with load_audio of src/audio_io.py.                 *)
(*                                                                         *)
(* Arithmetic.  Samples are float64 in the program.  Here a sample is an   *)
(* integer number of units, One units being the amplitude 1.0, so that the *)
(* stereo mean and the three gains of the program are exact.  The gain     *)
(* 10 ** (db / 20) is kept in thousandths (1000, 891, 501).  A buffer that *)
(* was divided by its peak is kept as the pair (numerators, denominator).  *)
(* Floating-point rounding is not modelled.                                *)
(*                                                                         *)
(* Spec is one request, from the click of a run button to the end of its   *)
(* handler, in the steps between which the handler's locals can be         *)
(* observed.  The events that QApplication.processEvents() dispatches      *)
(* inside set_status are not part of Spec.  SpecUI adds the click on a run *)
(* button that processEvents() dispatches while a handler is inside        *)
(* set_status: the handler of the click runs inside the suspended one.     *)
(* SpecDrop is one DropArea of src/drop_area.py under drops and clears,    *)
(* apart from the runs.                                                    *)
(***************************************************************************)
EXTENDS Integers, Sequences, FiniteSets, TLC

\* ---------------------------------------------------------------- bounds
\* The longest stem list of an Add Stems request.
MaxStems == 3
\* The longest stem list of a Subtract stems request.
MaxSubStems == 2
\* The frame count of the long files.
MaxFrames == 2

\* The runs started inside the status update of another run (SpecUI).
MaxNested == 1

\* The URLs of one drop, and the drops and clears on a drop area (SpecDrop).
MaxUrls == 2
MaxEvents == 4

\* ------------------------------------------------------- sample arithmetic
\* The amplitude 1.0 (full scale), in units.
One == 2000

Abs(x) == IF x < 0 THEN -x ELSE x

RECURSIVE SeqSum(_)
SeqSum(s) == IF s = <<>> THEN 0 ELSE Head(s) + SeqSum(Tail(s))

SetMax(S) == CHOOSE x \in S : \A y \in S : y <= x

\* An array of shape (Len(fr), ch): fr[f][c] is frame f, channel c.
Array(ch, fr) == [ch |-> ch, fr |-> fr]
shape0(a) == Len(a.fr)
shape1(a) == a.ch

np_zeros(n, ch) == Array(ch, [f \in 1..n |-> [c \in 1..ch |-> 0]])

\* np.repeat(a, 2, axis=1): every column twice.
np_repeat2(a) ==
    Array(2 * a.ch,
          [f \in 1..shape0(a) |-> [c \in 1..(2 * a.ch) |-> a.fr[f][(c + 1) \div 2]]])

\* a.mean(axis=1, keepdims=True): one column, the mean of the frame.
np_mean(a) ==
    Array(1, [f \in 1..shape0(a) |-> <<SeqSum(a.fr[f]) \div a.ch>>])

\* np.vstack((a, b)): the frames of b after the frames of a.
np_vstack(a, b) == Array(a.ch, a.fr \o b.fr)

\* a[:n, :]
np_head(a, n) == Array(a.ch, SubSeq(a.fr, 1, n))

\* a + b, elementwise, on equal shapes.
np_add(a, b) ==
    Array(a.ch, [f \in 1..shape0(a) |-> [c \in 1..a.ch |-> a.fr[f][c] + b.fr[f][c]]])

\* -a
np_neg(a) ==
    Array(a.ch, [f \in 1..shape0(a) |-> [c \in 1..a.ch |-> -a.fr[f][c]]])

\* a * gain, the gain in thousandths.
np_scale(a, gain) ==
    Array(a.ch,
          [f \in 1..shape0(a) |-> [c \in 1..a.ch |-> (a.fr[f][c] * gain) \div 1000]])

\* The values |a[f][c]|.
AbsValues(a) == {Abs(a.fr[f][c]) : f \in 1..shape0(a), c \in 1..a.ch}

\* a.size
np_size(a) == shape0(a) * a.ch

\* np.max(np.abs(a)); numpy raises ValueError on an array of size 0, here -1.
np_max_abs(a) == IF AbsValues(a) = {} THEN -1 ELSE SetMax(AbsValues(a))

\* Mutant of np_divide: the divisor is a little above d, to leave headroom.
np_divide_headroom(a, d) == [ch |-> a.ch, fr |-> a.fr, den |-> d + 1]

\* a / d: every sample a.fr[f][c] / d, kept as numerators and denominator.
np_divide(a, d) == [ch |-> a.ch, fr |-> a.fr, den |-> d]

\* The array as it is handed over unchanged: a / 1.0.
np_asis(a) == [ch |-> a.ch, fr |-> a.fr, den |-> One]

\* The place of a buffer that does not exist yet.
NoArray == Array(0, <<>>)
NoResult == [ch |-> 0, fr |-> <<>>, den |-> One]

\* ------------------------------------------------------------ input files
ACCEPT_EXTS ==
    {".wav", ".w64", ".aif", ".aiff", ".aifc", ".au", ".snd", ".caf", ".flac",
     ".ogg", ".oga", ".opus", ".mp3", ".raw", ".voc", ".pvf", ".xi", ".htk",
     ".sd2", ".sph", ".nist", ".sf", ".mat"}

Rates == {44100, 48000}

\* A file is its (lower-cased) extension, whether the codec can decode it,
\* and what it decodes to: sample rate, channel count, frame count, and the
\* amplitude amp of its content.
File(ok, sr, ch, len, amp) ==
    [ext |-> ".wav", ok |-> ok, sr |-> sr, ch |-> ch, len |-> len, amp |-> amp]

\* The files a request may name: mono and stereo, short and long; a mono
\* file of inverted content; stereo silence; a file without frames; a file of
\* three channels; two files of the other sample rate; a file the codec
\* cannot decode; a mono float file whose samples reach 2.0.  Every one has
\* an accepted extension: a drop area keeps no other path (DropArea.dropEvent).
Files ==
    {File(TRUE, 44100, ch, len, 1) : ch \in {1, 2}, len \in {1, MaxFrames}}
        \cup {File(TRUE, 44100, 1, MaxFrames, -1), File(TRUE, 44100, 2, MaxFrames, 0),
               File(TRUE, 44100, 1, 0, 0), File(TRUE, 44100, 3, 1, 1),
               File(TRUE, 48000, 1, 1, 1), File(TRUE, 48000, 3, 1, 1),
               File(FALSE, 44100, 1, 1, 0), File(TRUE, 44100, 1, 1, 2)}

NoFile == [ext |-> "", ok |-> FALSE, sr |-> 0, ch |-> 0, len |-> 0, amp |-> 0]

\* The content of file p at frame f, channel c, in the amplitude p.amp: the
\* channels differ and the frames differ.
Content(p, f, c) ==
    IF c = 2 THEN (IF f % 2 = 1 THEN 0 ELSE -p.amp)
             ELSE (IF f % 2 = 1 THEN p.amp ELSE -p.amp)

\* sf.read(path, always_2d=True), as float64.
sf_read(p) ==
    Array(p.ch, [f \in 1..p.len |-> [c \in 1..p.ch |-> Content(p, f, c) * One]])

\* load_audio(path): the error it raises, or the data and the sample rate.
load_audio(p) ==
    IF p.ext \notin ACCEPT_EXTS
    THEN [err |-> "UnsupportedFormat", data |-> NoArray, sr |-> 0]
    ELSE IF ~p.ok
    THEN [err |-> "DecodeFailure", data |-> NoArray, sr |-> 0]
    ELSE [err |-> "none", data |-> sf_read(p), sr |-> p.sr]

\* 10.0 ** (db / 20.0), in thousandths.
lv_db_values == {0, -1, -6}
Gain(d) == CASE d = 0 -> 1000 [] d = -1 -> 891 [] d = -6 -> 501

\* ------------------------------------------------------------------ state
VARIABLES
    mode,        \* the tab of the request: "add" (Add Stems) or "sub" (Subtract stems)
    stems,       \* the paths of the tab's stems drop area
    orig_list,   \* ss_orig_drop.paths ("sub"), at most one path
    db,          \* _get_selected_lv_db(): the gain selected on the Add Stems tab
    pc,          \* the position of the handler
    i,           \* the index in stems of the stem the loop is at
    sr,          \* the reference sample rate
    max_len,     \* the reference length
    channels,    \* the reference channel count
    orig_data,   \* the original ("sub")
    stem_data,   \* the stem the loop is at
    combined,    \* the accumulator
    peak,        \* float(np.max(np.abs(...)))
    result,      \* the buffer for the writer
    total_db,    \* db, and the peak whose 20 * log10 was taken off it (One: none)
    status,      \* the text of status_label
    box,         \* the message box shown last
    clicked,     \* msg_box.clickedButton() of the clipping box
    raised,      \* the exception that left the handler
    written,     \* the calls of sf.write
    n_loaded,    \* history: files decoded by load_audio in this request
    n_gain,      \* history: buffers multiplied by the gain
    n_accum,     \* history: stems added to the accumulator
    n_math,      \* history: samples multiplied by the gain or added up
    stack,       \* the handlers suspended in set_status, innermost first
    nested,      \* history: runs started inside the status update of another
    allow_multiple, \* DropArea.allow_multiple
    paths,       \* DropArea.paths
    label,       \* the text of the DropArea (a QLabel)
    n_emitted,   \* history: the times files_changed was emitted
    last_event,  \* history: the last drop or clear, and paths and n_emitted before it
    seen,        \* history: the paths accepted since the last clear, by first drop
    last_picked, \* history: picked of the last accepted drop since the last clear
    n_events     \* history: the drops and clears so far

request == <<mode, stems, orig_list, db>>
reference == <<sr, max_len, channels, orig_data>>
history == <<n_loaded, n_gain, n_accum, n_math>>
nesting == <<stack, nested>>
drop_area ==
    <<allow_multiple, paths, label, n_emitted, last_event, seen, last_picked, n_events>>
vars ==
    <<mode, stems, orig_list, db, pc, i, sr, max_len, channels, orig_data,
      stem_data, combined, peak, result, total_db, status, box, clicked,
      raised, written, n_loaded, n_gain, n_accum, n_math, stack, nested,
      allow_multiple, paths, label, n_emitted, last_event, seen, last_picked,
      n_events>>

\* No drop and no clear yet.
NoEvent == [kind |-> "none", picked |-> <<>>, disposition |-> "none",
            paths |-> <<>>, n_emitted |-> 0]

\* DropArea.__init__ (lines 13-25): no path, the default text.
Constructed ==
    /\ paths = <<>>
    /\ label = [kind |-> "default", names |-> <<>>]
    /\ n_emitted = 0
    /\ last_event = NoEvent
    /\ seen = <<>>
    /\ last_picked = <<>>
    /\ n_events = 0

\* The lists of at most n files.
Lists(n) == UNION {[1..k -> Files] : k \in 0..n}

NoError == [exc |-> "none", kind |-> "none", idx |-> 0, name |-> NoFile, got |-> 0, expected |-> 0]
Error(exc, kind, idx, name, got, expected) ==
    [exc |-> exc, kind |-> kind, idx |-> idx, name |-> name, got |-> got,
     expected |-> expected]

\* What load_audio raises: ValueError for the extension, the codec's error.
LoadError(l, idx, name) ==
    Error(IF l.err = "UnsupportedFormat" THEN "ValueError" ELSE "LibsndfileError",
          l.err, idx, name, 0, 0)

\* The window after construction, with the drop areas filled and a gain
\* selected, before a run button is clicked.
Init ==
    /\ mode \in {"add", "sub"}
    /\ db \in lv_db_values
    /\ \/ mode = "add" /\ stems \in Lists(MaxStems) /\ orig_list = <<>>
       \/ mode = "sub" /\ stems \in Lists(MaxSubStems) /\ orig_list \in Lists(1)
    /\ pc = "idle"
    /\ i = 0
    /\ sr = 0
    /\ max_len = 0
    /\ channels = 0
    /\ orig_data = NoArray
    /\ stem_data = NoArray
    /\ combined = NoArray
    /\ peak = 0
    /\ result = NoResult
    /\ total_db = [db |-> 0, less |-> One]
    /\ status = "attribution"
    /\ box = "none"
    /\ clicked = "none"
    /\ raised = NoError
    /\ written = <<>>
    /\ n_loaded = 0
    /\ n_gain = 0
    /\ n_accum = 0
    /\ n_math = 0
    /\ stack = <<>>
    /\ nested = 0
    /\ allow_multiple = TRUE
    /\ Constructed

\* An exception leaves the handler: nothing after the raise is executed.
Raise(e) ==
    /\ pc' = "raised"
    /\ raised' = e

\* _write_audio(out_base, data, sr): one call of sf.write.
write_audio(data, rate) == Append(written, [data |-> data, sr |-> rate])

\* Mutant of reconcile: the two channels of a stereo stem are summed, not
\* averaged.
reconcile_sum(data, ch) ==
    IF shape1(data) # ch
    THEN IF shape1(data) = 1 /\ ch = 2
         THEN [ok |-> TRUE, data |-> np_repeat2(data)]
         ELSE IF shape1(data) = 2 /\ ch = 1
         THEN [ok |-> TRUE,
               data |-> Array(1, [f \in 1..shape0(data) |-> <<SeqSum(data.fr[f])>>])]
         ELSE [ok |-> FALSE, data |-> data]
    ELSE [ok |-> TRUE, data |-> data]

\* Mutant of reconcile: a pair outside the mono/stereo rules is fitted to the
\* reference channel count and not refused.
reconcile_lenient(data, ch) ==
    IF shape1(data) # ch
    THEN IF shape1(data) = 1 /\ ch = 2
         THEN [ok |-> TRUE, data |-> np_repeat2(data)]
         ELSE IF shape1(data) = 2 /\ ch = 1
         THEN [ok |-> TRUE, data |-> np_mean(data)]
         ELSE [ok |-> TRUE,
               data |-> Array(ch, [f \in 1..shape0(data) |->
                                      [c \in 1..ch |->
                                          data.fr[f][IF c <= data.ch THEN c ELSE 1]]])]
    ELSE [ok |-> TRUE, data |-> data]

\* The channel reconciliation of a stem against the reference channel count:
\* the stem as reconciled, or that ValueError("Channel mismatch ...") is raised.
reconcile(data, ch) ==
    IF shape1(data) # ch
    THEN IF shape1(data) = 1 /\ ch = 2
         THEN [ok |-> TRUE, data |-> np_repeat2(data)]
         ELSE IF shape1(data) = 2 /\ ch = 1
         THEN [ok |-> TRUE, data |-> np_mean(data)]
         ELSE [ok |-> FALSE, data |-> data]
    ELSE [ok |-> TRUE, data |-> data]

\* Mutant of check_stem: the sample rate is not compared.
check_stem_any_rate(path, idx, ref_sr, ref_ch) ==
    LET l == load_audio(path) IN
    IF l.err # "none"
    THEN [err |-> LoadError(l, idx, path), data |-> NoArray]
    ELSE LET r == reconcile(l.data, ref_ch) IN
         IF ~r.ok
         THEN [err |-> Error("ValueError", "ChannelMismatch", idx, path, 0, 0),
               data |-> NoArray]
         ELSE [err |-> NoError, data |-> r.data]

\* Mutant of check_stem: the channel counts are compared before the rates.
check_stem_channels_first(path, idx, ref_sr, ref_ch) ==
    LET l == load_audio(path) IN
    IF l.err # "none"
    THEN [err |-> LoadError(l, idx, path), data |-> NoArray]
    ELSE LET r == reconcile(l.data, ref_ch) IN
         IF ~r.ok
         THEN [err |-> Error("ValueError", "ChannelMismatch", idx, path, 0, 0),
               data |-> NoArray]
         ELSE IF l.sr # ref_sr
         THEN [err |-> Error("ValueError", "SampleRateMismatch", idx, path, l.sr, ref_sr),
               data |-> NoArray]
         ELSE [err |-> NoError, data |-> r.data]

\* The loading of stem idx, its sample-rate check and its reconciliation: the
\* exception raised, or the stem as reconciled.
check_stem(path, idx, ref_sr, ref_ch) ==
    LET l == load_audio(path) IN
    IF l.err # "none"
    THEN [err |-> LoadError(l, idx, path), data |-> NoArray]
    ELSE IF l.sr # ref_sr
    THEN [err |-> Error("ValueError", "SampleRateMismatch", idx, path, l.sr, ref_sr),
          data |-> NoArray]
    ELSE LET r == reconcile(l.data, ref_ch) IN
         IF ~r.ok
         THEN [err |-> Error("ValueError", "ChannelMismatch", idx, path, 0, 0),
               data |-> NoArray]
         ELSE [err |-> NoError, data |-> r.data]
\* ------------------------------------------------ the Add Stems tab (run)
\* Mutant of align_additive: a shorter stem gets its zeros in front.
align_additive_pad_front(acc, stem, len, ch) ==
    LET grown == shape0(stem) > len
        new_len == IF grown THEN shape0(stem) ELSE len
    IN  [combined |-> IF grown
                      THEN np_vstack(acc, np_zeros(shape0(stem) - len, ch))
                      ELSE acc,
         max_len |-> new_len,
         stem_data |-> IF shape0(stem) < new_len
                       THEN np_vstack(np_zeros(new_len - shape0(stem), ch), stem)
                       ELSE stem]

\* Mutant of align_additive: a longer stem is cut to the reference length, as
\* in the subtraction.
align_additive_truncating(acc, stem, len, ch) ==
    [combined |-> acc,
     max_len |-> len,
     stem_data |-> IF shape0(stem) < len
                   THEN np_vstack(stem, np_zeros(len - shape0(stem), ch))
                   ELSE np_head(stem, len)]

\* Lines 479-488: the accumulator is extended with zeros to a longer stem and
\* the reference length grows to it; a shorter stem is padded with zeros.
align_additive(acc, stem, len, ch) ==
    LET grown == shape0(stem) > len
        new_len == IF grown THEN shape0(stem) ELSE len
    IN  [combined |-> IF grown
                      THEN np_vstack(acc, np_zeros(shape0(stem) - len, ch))
                      ELSE acc,
         max_len |-> new_len,
         stem_data |-> IF shape0(stem) < new_len
                       THEN np_vstack(stem, np_zeros(new_len - shape0(stem), ch))
                       ELSE stem]

\* _run_lower_volume up to its first status text (lines 429-451).
run_lower_volume ==
    /\ pc = "idle"
    /\ mode = "add"
    /\ IF stems = <<>>
       THEN /\ Raise(Error("RuntimeError", "NoInputsProvided", 0, NoFile, 0, 0))
            /\ UNCHANGED status
       ELSE IF Len(stems) = 1
       THEN /\ status' = "Lowering volume"
            /\ pc' = "lv_single"
            /\ UNCHANGED raised
       ELSE /\ status' = "Adding stems"
            /\ pc' = "lv_first"
            /\ UNCHANGED raised
    /\ UNCHANGED <<clicked, request, nesting, drop_area, reference, history, i, stem_data, combined, peak,
                   result, total_db, box, written>>

\* Mutant of lv_single: the scaled file is divided by its peak when the peak
\* is above 1.0.
lv_single_normalizing ==
    /\ pc = "lv_single"
    /\ LET l == load_audio(stems[1]) IN
       IF l.err # "none"
       THEN /\ Raise(LoadError(l, 1, stems[1]))
            /\ UNCHANGED <<sr, result, written, status, box, n_loaded, n_gain,
                           n_math>>
       ELSE /\ sr' = l.sr
            /\ result' = LET scaled == np_scale(l.data, Gain(db)) IN
                         IF np_max_abs(scaled) > One
                         THEN np_divide(scaled, np_max_abs(scaled))
                         ELSE np_asis(scaled)
            /\ n_math' = n_math + np_size(l.data)
            /\ written' = write_audio(result', sr')
            /\ status' = "Done lowering volume."
            /\ box' = "Success"
            /\ pc' = "done"
            /\ n_loaded' = n_loaded + 1
            /\ n_gain' = n_gain + 1
            /\ UNCHANGED raised
    /\ UNCHANGED <<clicked, request, nesting, drop_area, max_len, channels, orig_data, i, stem_data,
                   combined, peak, total_db, n_accum>>

\* The single file: gain only (lines 441-448).
lv_single ==
    /\ pc = "lv_single"
    /\ LET l == load_audio(stems[1]) IN
       IF l.err # "none"
       THEN /\ Raise(LoadError(l, 1, stems[1]))
            /\ UNCHANGED <<sr, result, written, status, box, n_loaded, n_gain,
                           n_math>>
       ELSE /\ sr' = l.sr
            /\ result' = np_asis(np_scale(l.data, Gain(db)))
            /\ n_math' = n_math + np_size(l.data)
            /\ written' = write_audio(result', sr')
            /\ status' = "Done lowering volume."
            /\ box' = "Success"
            /\ pc' = "done"
            /\ n_loaded' = n_loaded + 1
            /\ n_gain' = n_gain + 1
            /\ UNCHANGED raised
    /\ UNCHANGED <<clicked, request, nesting, drop_area, max_len, channels, orig_data, i, stem_data,
                   combined, peak, total_db, n_accum>>

\* The first file gives the reference rate and shape (lines 453-459).
lv_first ==
    /\ pc = "lv_first"
    /\ LET l == load_audio(stems[1]) IN
       IF l.err # "none"
       THEN /\ Raise(LoadError(l, 1, stems[1]))
            /\ UNCHANGED <<sr, max_len, channels, combined, i, n_loaded, n_gain,
                           n_math>>
       ELSE /\ sr' = l.sr
            /\ combined' = np_scale(l.data, Gain(db))
            /\ n_math' = n_math + np_size(l.data)
            /\ max_len' = shape0(combined')
            /\ channels' = shape1(combined')
            /\ i' = 2
            /\ pc' = "lv_check"
            /\ n_loaded' = n_loaded + 1
            /\ n_gain' = n_gain + 1
            /\ UNCHANGED raised
    /\ UNCHANGED <<clicked, request, nesting, drop_area, orig_data, stem_data, peak, result, total_db, status,
                   box, written, n_accum>>

\* Mutant of lv_check: the stem is reconciled against the channel count of
\* the stem before it.
lv_check_against_previous ==
    /\ pc = "lv_check"
    /\ LET c == check_stem(stems[i], i, sr, stems[i - 1].ch) IN
       /\ n_loaded' = IF c.err.kind \in {"UnsupportedFormat", "DecodeFailure"}
                      THEN n_loaded ELSE n_loaded + 1
       /\ IF c.err.kind # "none"
          THEN /\ Raise(c.err)
               /\ UNCHANGED stem_data
          ELSE /\ stem_data' = c.data
               /\ pc' = "lv_fold"
               /\ UNCHANGED raised
    /\ UNCHANGED <<clicked, request, nesting, drop_area, reference, i, combined, peak, result, total_db,
                   status, box, written, n_gain, n_accum, n_math>>

\* One stem of the loop: loaded, rate-checked, reconciled (lines 462-475).
lv_check ==
    /\ pc = "lv_check"
    /\ LET c == check_stem(stems[i], i, sr, channels) IN
       /\ n_loaded' = IF c.err.kind \in {"UnsupportedFormat", "DecodeFailure"}
                      THEN n_loaded ELSE n_loaded + 1
       /\ IF c.err.kind # "none"
          THEN /\ Raise(c.err)
               /\ UNCHANGED stem_data
          ELSE /\ stem_data' = c.data
               /\ pc' = "lv_fold"
               /\ UNCHANGED raised
    /\ UNCHANGED <<clicked, request, nesting, drop_area, reference, i, combined, peak, result, total_db,
                   status, box, written, n_gain, n_accum, n_math>>

\* The same stem: gain, length alignment, accumulation (lines 477-490).
lv_fold ==
    /\ pc = "lv_fold"
    /\ LET scaled == np_scale(stem_data, Gain(db))
           a == align_additive(combined, scaled, max_len, channels)
       IN  /\ max_len' = a.max_len
           /\ stem_data' = a.stem_data
           /\ combined' = np_add(a.combined, a.stem_data)
           /\ n_math' = n_math + np_size(stem_data) + np_size(a.stem_data)
    /\ i' = i + 1
    /\ pc' = IF i' > Len(stems) THEN "lv_peak" ELSE "lv_check"
    /\ n_gain' = n_gain + 1
    /\ n_accum' = n_accum + 1
    /\ UNCHANGED <<clicked, request, nesting, drop_area, sr, channels, orig_data, peak, result,
                   total_db, status, box, raised, written, n_loaded>>

\* Mutant of lv_peak: the clipping box is shown from a peak of 1.0 on.
lv_peak_at_full_scale ==
    /\ pc = "lv_peak"
    /\ IF np_max_abs(combined) < 0
       THEN /\ Raise(Error("ValueError", "EmptyReduction", 0, NoFile, 0, 0))
            /\ UNCHANGED <<peak, total_db, result, box>>
       ELSE /\ peak' = np_max_abs(combined)
            /\ total_db' = [db |-> db, less |-> One]
            /\ IF peak' >= One
               THEN /\ box' = "Audio Clipping Detected"
                    /\ pc' = "lv_prompt"
                    /\ UNCHANGED result
               ELSE /\ result' = np_asis(combined)
                    /\ pc' = "lv_write"
                    /\ UNCHANGED box
            /\ UNCHANGED raised
    /\ UNCHANGED <<clicked, request, nesting, drop_area, reference, i, stem_data, combined, status, written,
                   history>>

\* The clip check after the loop (lines 493-495, 500-558).
lv_peak ==
    /\ pc = "lv_peak"
    /\ IF np_max_abs(combined) < 0
       THEN /\ Raise(Error("ValueError", "EmptyReduction", 0, NoFile, 0, 0))
            /\ UNCHANGED <<peak, total_db, result, box>>
       ELSE /\ peak' = np_max_abs(combined)
            /\ total_db' = [db |-> db, less |-> One]
            /\ IF peak' > One
               THEN /\ box' = "Audio Clipping Detected"
                    /\ pc' = "lv_prompt"
                    /\ UNCHANGED result
               ELSE /\ result' = np_asis(combined)
                    /\ pc' = "lv_write"
                    /\ UNCHANGED box
            /\ UNCHANGED raised
    /\ UNCHANGED <<clicked, request, nesting, drop_area, reference, i, stem_data, combined, status, written,
                   history>>

\* Mutant of lv_prompt: the cancel button does not return, the run goes on to
\* write.
lv_prompt_cancel_writes ==
    /\ pc = "lv_prompt"
    /\ clicked' \in {"yes_btn", "no_btn", "cancel_btn"}
    /\ IF clicked' = "yes_btn"
          THEN /\ result' = np_divide(combined, peak)
               /\ total_db' = [db |-> db, less |-> peak]
          ELSE /\ result' = np_asis(combined)
               /\ UNCHANGED total_db
    /\ status' = IF clicked' = "cancel_btn" THEN "Add stems cancelled." ELSE status
    /\ pc' = "lv_write"
    /\ UNCHANGED <<request, nesting, drop_area, reference, i, stem_data, combined, peak, box, raised,
                   written, history>>

\* Mutant of lv_prompt: the reduction is taken off the reported gain also when
\* clipping is allowed.
lv_prompt_no_reduces ==
    /\ pc = "lv_prompt"
    /\ clicked' \in {"yes_btn", "no_btn", "cancel_btn"}
    /\ IF clicked' = "cancel_btn"
          THEN /\ status' = "Add stems cancelled."
               /\ pc' = "cancelled"
               /\ UNCHANGED <<result, total_db>>
          ELSE IF clicked' = "yes_btn"
          THEN /\ result' = np_divide(combined, peak)
               /\ total_db' = [db |-> db, less |-> peak]
               /\ pc' = "lv_write"
               /\ UNCHANGED status
          ELSE /\ result' = np_asis(combined)
               /\ total_db' = [db |-> db, less |-> peak]
               /\ pc' = "lv_write"
               /\ UNCHANGED status
    /\ UNCHANGED <<request, nesting, drop_area, reference, i, stem_data, combined, peak, box, raised,
                   written, history>>

\* The button that closes the clipping box (lines 560-568).
lv_prompt ==
    /\ pc = "lv_prompt"
    /\ clicked' \in {"yes_btn", "no_btn", "cancel_btn"}
    /\ IF clicked' = "cancel_btn"
          THEN /\ status' = "Add stems cancelled."
               /\ pc' = "cancelled"
               /\ UNCHANGED <<result, total_db>>
          ELSE IF clicked' = "yes_btn"
          THEN /\ result' = np_divide(combined, peak)
               /\ total_db' = [db |-> db, less |-> peak]
               /\ pc' = "lv_write"
               /\ UNCHANGED status
          ELSE /\ result' = np_asis(combined)
               /\ pc' = "lv_write"
               /\ UNCHANGED <<status, total_db>>
    /\ UNCHANGED <<request, nesting, drop_area, reference, i, stem_data, combined, peak, box, raised,
                   written, history>>

\* The output is written (lines 571-576).
lv_write ==
    /\ pc = "lv_write"
    /\ written' = write_audio(result, sr)
    /\ status' = "Saved"
    /\ pc' = "done"
    /\ UNCHANGED <<clicked, request, nesting, drop_area, reference, i, stem_data, combined, peak, result,
                   total_db, box, raised, history>>
\* The loop of the multi-stem run as one function of the stem list and the
\* selected gain (lines 453-490): the exception raised, or the reference and
\* the combined buffer when the loop ends.
mix_first(path, d) ==
    LET l == load_audio(path)
        first == np_scale(l.data, Gain(d))
    IN  IF l.err # "none"
        THEN [err |-> LoadError(l, 1, path), sr |-> 0, channels |-> 0,
              max_len |-> 0, combined |-> NoArray]
        ELSE [err |-> NoError, sr |-> l.sr, channels |-> shape1(first),
              max_len |-> shape0(first), combined |-> first]

mix_stem(acc, path, idx, d) ==
    LET c == check_stem(path, idx, acc.sr, acc.channels)
        a == align_additive(acc.combined, np_scale(c.data, Gain(d)),
                            acc.max_len, acc.channels)
    IN  IF c.err.kind # "none"
        THEN [acc EXCEPT !.err = c.err]
        ELSE [acc EXCEPT !.max_len = a.max_len,
                         !.combined = np_add(a.combined, a.stem_data)]

RECURSIVE mix_from(_, _, _, _)
mix_from(acc, list, idx, d) ==
    IF idx > Len(list) \/ acc.err.kind # "none"
    THEN acc
    ELSE mix_from(mix_stem(acc, list[idx], idx, d), list, idx + 1, d)

additive_mix(list, d) == mix_from(mix_first(list[1], d), list, 2, d)

\* ------------------------------------------- the Subtract stems tab (run)
\* Mutant of align_to_original: a longer stem keeps its last frames.
align_keeping_tail(stem, len, ch) ==
    IF shape0(stem) < len
    THEN np_vstack(stem, np_zeros(len - shape0(stem), ch))
    ELSE IF shape0(stem) > len
    THEN Array(stem.ch, SubSeq(stem.fr, shape0(stem) - len + 1, shape0(stem)))
    ELSE stem

\* Lines 675-679: a shorter stem is padded to the original's length, a longer
\* one is cut to it.
align_to_original(stem, len, ch) ==
    IF shape0(stem) < len
    THEN np_vstack(stem, np_zeros(len - shape0(stem), ch))
    ELSE IF shape0(stem) > len
    THEN np_head(stem, len)
    ELSE stem

\* Mutant of clip_guard: the result is never divided by its peak.
clip_guard_never(res, pk) == np_asis(res)

\* Mutant of clip_guard: the result is always divided by its peak.
clip_guard_always(res, pk) == np_divide(res, pk)

\* The clip guard of the subtraction (lines 687-689).
clip_guard(res, pk) ==
    IF pk > One /\ pk > 0 THEN np_divide(res, pk) ELSE np_asis(res)

\* Mutant of process_subtract_stems: the original is read before the lists
\* are checked.
process_subtract_stems_loads_first ==
    /\ pc = "idle"
    /\ mode = "sub"
    /\ n_loaded' = IF orig_list # <<>> /\ load_audio(orig_list[Len(orig_list)]).err = "none"
                   THEN n_loaded + 1 ELSE n_loaded
    /\ IF stems = <<>> \/ orig_list = <<>>
       THEN /\ Raise(Error("RuntimeError", "NoInputsProvided",
                           0, NoFile, 0, 0))
            /\ UNCHANGED status
       ELSE /\ status' = "Loading original..."
            /\ pc' = "ss_orig"
            /\ UNCHANGED raised
    /\ UNCHANGED <<clicked, request, nesting, drop_area, reference, n_gain, n_accum, n_math, i, stem_data,
                   combined, peak, result, total_db, box, written>>

\* _process_subtract_stems up to its first status text (lines 641-651).
process_subtract_stems ==
    /\ pc = "idle"
    /\ mode = "sub"
    /\ IF stems = <<>> \/ orig_list = <<>>
       THEN /\ Raise(Error("RuntimeError", "NoInputsProvided",
                           0, NoFile, 0, 0))
            /\ UNCHANGED status
       ELSE /\ status' = "Loading original..."
            /\ pc' = "ss_orig"
            /\ UNCHANGED raised
    /\ UNCHANGED <<clicked, request, nesting, drop_area, reference, history, i, stem_data, combined, peak,
                   result, total_db, box, written>>

\* Mutant of ss_orig: an original without frames is taken as the reference.
ss_orig_accepts_empty ==
    /\ pc = "ss_orig"
    /\ LET path == orig_list[Len(orig_list)]
           l == load_audio(path) IN
       IF l.err # "none"
       THEN /\ Raise(LoadError(l, 0, path))
            /\ UNCHANGED <<sr, max_len, channels, orig_data, combined, i, status,
                           n_loaded>>
       ELSE /\ orig_data' = l.data
            /\ sr' = l.sr
            /\ max_len' = shape0(l.data)
            /\ channels' = shape1(l.data)
            /\ n_loaded' = n_loaded + 1
            /\ status' = "Loading and summing stems..."
            /\ combined' = np_zeros(max_len', channels')
            /\ i' = 1
            /\ pc' = "ss_check"
            /\ UNCHANGED raised
    /\ UNCHANGED <<clicked, request, nesting, drop_area, stem_data, peak, result, total_db, box,
                   written, n_gain, n_accum, n_math>>

\* The original gives the reference rate and shape (lines 652-659).
ss_orig ==
    /\ pc = "ss_orig"
    /\ LET path == orig_list[Len(orig_list)]
           l == load_audio(path) IN
       IF l.err # "none"
       THEN /\ Raise(LoadError(l, 0, path))
            /\ UNCHANGED <<sr, max_len, channels, orig_data, combined, i, status,
                           n_loaded>>
       ELSE /\ orig_data' = l.data
            /\ sr' = l.sr
            /\ max_len' = shape0(l.data)
            /\ channels' = shape1(l.data)
            /\ n_loaded' = n_loaded + 1
            /\ IF max_len' = 0
               THEN /\ Raise(Error("ValueError", "EmptyInput", 0, path, 0, 0))
                    /\ UNCHANGED <<combined, i, status>>
               ELSE /\ status' = "Loading and summing stems..."
                    /\ combined' = np_zeros(max_len', channels')
                    /\ i' = 1
                    /\ pc' = "ss_check"
                    /\ UNCHANGED raised
    /\ UNCHANGED <<clicked, request, nesting, drop_area, stem_data, peak, result, total_db, box,
                   written, n_gain, n_accum, n_math>>

\* One stem of the loop: loaded, rate-checked, reconciled (lines 661-673).
ss_check ==
    /\ pc = "ss_check"
    /\ LET c == check_stem(stems[i], i, sr, channels) IN
       /\ n_loaded' = IF c.err.kind \in {"UnsupportedFormat", "DecodeFailure"}
                      THEN n_loaded ELSE n_loaded + 1
       /\ IF c.err.kind # "none"
          THEN /\ Raise(c.err)
               /\ UNCHANGED stem_data
          ELSE /\ stem_data' = c.data
               /\ pc' = "ss_fold"
               /\ UNCHANGED raised
    /\ UNCHANGED <<clicked, request, nesting, drop_area, reference, i, combined, peak, result, total_db,
                   status, box, written, n_gain, n_accum, n_math>>

\* Mutant of ss_fold: the stem is multiplied by the gain of the Add Stems tab.
ss_fold_with_gain ==
    /\ pc = "ss_fold"
    /\ stem_data' = align_to_original(np_scale(stem_data, Gain(db)), max_len, channels)
    /\ combined' = np_add(combined, stem_data')
    /\ n_math' = n_math + np_size(stem_data')
    /\ i' = i + 1
    /\ pc' = IF i' > Len(stems) THEN "ss_combine" ELSE "ss_check"
    /\ n_accum' = n_accum + 1
    /\ UNCHANGED <<clicked, request, nesting, drop_area, reference, peak, result, total_db, status,
                   box, raised, written, n_loaded, n_gain>>

\* The same stem: length alignment, accumulation (lines 675-681).
ss_fold ==
    /\ pc = "ss_fold"
    /\ stem_data' = align_to_original(stem_data, max_len, channels)
    /\ combined' = np_add(combined, stem_data')
    /\ n_math' = n_math + np_size(stem_data')
    /\ i' = i + 1
    /\ pc' = IF i' > Len(stems) THEN "ss_combine" ELSE "ss_check"
    /\ n_accum' = n_accum + 1
    /\ UNCHANGED <<clicked, request, nesting, drop_area, reference, peak, result, total_db, status,
                   box, raised, written, n_loaded, n_gain>>

\* Phase inversion and sum with the original (lines 683-687).
ss_combine ==
    /\ pc = "ss_combine"
    /\ status' = "Phase inverting stems and combining with original..."
    /\ LET inverted == np_neg(combined) IN
       /\ result' = np_asis(np_add(orig_data, inverted))
       /\ peak' = np_max_abs(result')
    /\ pc' = "ss_clip"
    /\ UNCHANGED <<clicked, request, nesting, drop_area, reference, i, stem_data, combined, total_db, box,
                   raised, written, history>>

\* The clip guard (lines 688-694).
ss_clip ==
    /\ pc = "ss_clip"
    /\ result' = clip_guard(Array(result.ch, result.fr), peak)
    /\ status' = "Writing output..."
    /\ pc' = "ss_write"
    /\ UNCHANGED <<clicked, request, nesting, drop_area, reference, i, stem_data, combined, peak, total_db,
                   box, raised, written, history>>

\* The output is written (lines 695-698).
ss_write ==
    /\ pc = "ss_write"
    /\ written' = write_audio(result, sr)
    /\ status' = "Done"
    /\ box' = "Success"
    /\ pc' = "done"
    /\ UNCHANGED <<clicked, request, nesting, drop_area, reference, i, stem_data, combined, peak, result,
                   total_db, raised, history>>

\* ----------------------------------------------------------- specification
Next ==
    \/ run_lower_volume
    \/ lv_single
    \/ lv_first
    \/ lv_check
    \/ lv_fold
    \/ lv_peak
    \/ lv_prompt
    \/ lv_write
    \/ process_subtract_stems
    \/ ss_orig
    \/ ss_check
    \/ ss_fold
    \/ ss_combine
    \/ ss_clip
    \/ ss_write

Spec == Init /\ [][Next]_vars

\* ------------------------------------- clicks dispatched inside set_status
\* The handler is inside set_status (lines 702-704) at one of its phase texts:
\* the label is set and QApplication.processEvents() dispatches what is
\* pending, the click on a run button included (lines 440, 451, 651, 658, 683,
\* 694).  The clipping box (msg_box.exec_(), line 558) is modal: while it is
\* open the run buttons of the window get no click.
InSetStatus ==
    \/ pc \in {"lv_single", "lv_first", "ss_orig", "ss_clip", "ss_write"}
    \/ pc = "ss_check" /\ i = 1

\* The locals of a handler and the lists and the gain it was started on.
Frame ==
    [mode |-> mode, stems |-> stems, orig_list |-> orig_list, db |-> db,
     pc |-> pc, i |-> i, sr |-> sr, max_len |-> max_len, channels |-> channels,
     orig_data |-> orig_data, stem_data |-> stem_data, combined |-> combined,
     peak |-> peak, result |-> result, total_db |-> total_db,
     clicked |-> clicked, n_loaded |-> n_loaded, n_gain |-> n_gain,
     n_accum |-> n_accum, n_math |-> n_math]

\* What the drop areas of the other tab hold when its run button is clicked.
OtherTab(tab) ==
    IF tab = "sub"
    THEN {[stems |-> <<>>, orig_list |-> <<>>],
          [stems |-> <<File(TRUE, 44100, 1, 1, 1)>>,
           orig_list |-> <<File(TRUE, 44100, 2, MaxFrames, 1)>>]}
    ELSE {[stems |-> <<File(TRUE, 44100, 1, 1, 1)>>, orig_list |-> <<>>],
          [stems |-> <<File(TRUE, 44100, 1, 1, 1), File(TRUE, 44100, 2, MaxFrames, 1)>>,
           orig_list |-> <<>>]}

\* A click on a run button is dispatched by processEvents() inside
\* set_status: the connected slot (lines 397, 631) is called at once, on top
\* of the handler that called set_status, which stays suspended.
click_run_in_set_status ==
    /\ InSetStatus
    /\ nested < MaxNested
    /\ stack' = <<Frame>> \o stack
    /\ nested' = nested + 1
    /\ \E tab \in {"add", "sub"} :
           /\ mode' = tab
           /\ IF tab = mode
              THEN UNCHANGED <<stems, orig_list>>
              ELSE \E o \in OtherTab(tab) :
                       stems' = o.stems /\ orig_list' = o.orig_list
    /\ pc' = "idle"
    /\ i' = 0
    /\ sr' = 0
    /\ max_len' = 0
    /\ channels' = 0
    /\ orig_data' = NoArray
    /\ stem_data' = NoArray
    /\ combined' = NoArray
    /\ peak' = 0
    /\ result' = NoResult
    /\ total_db' = [db |-> 0, less |-> One]
    /\ clicked' = "none"
    /\ n_loaded' = 0
    /\ n_gain' = 0
    /\ n_accum' = 0
    /\ n_math' = 0
    /\ UNCHANGED <<db, status, box, raised, written, drop_area>>

\* The inner handler returns: processEvents() and set_status return and the
\* suspended handler goes on with its own locals; the label, the box shown
\* last and the files written are as the inner run left them.  An exception
\* that leaves the inner slot does not come back here.
return_to_outer ==
    /\ stack # <<>>
    /\ pc \in {"done", "cancelled"}
    /\ LET f == Head(stack) IN
       /\ mode' = f.mode
       /\ stems' = f.stems
       /\ orig_list' = f.orig_list
       /\ db' = f.db
       /\ pc' = f.pc
       /\ i' = f.i
       /\ sr' = f.sr
       /\ max_len' = f.max_len
       /\ channels' = f.channels
       /\ orig_data' = f.orig_data
       /\ stem_data' = f.stem_data
       /\ combined' = f.combined
       /\ peak' = f.peak
       /\ result' = f.result
       /\ total_db' = f.total_db
       /\ clicked' = f.clicked
       /\ n_loaded' = f.n_loaded
       /\ n_gain' = f.n_gain
       /\ n_accum' = f.n_accum
       /\ n_math' = f.n_math
    /\ stack' = Tail(stack)
    /\ UNCHANGED <<status, box, raised, written, nested, drop_area>>

NextUI ==
    \/ Next
    \/ click_run_in_set_status
    \/ return_to_outer

SpecUI == Init /\ [][NextUI]_vars

\* ---------------------------------------------------------- the drop areas
\* str.lower() on the extensions that occur here.
Lower(e) == CASE e = ".WAV" -> ".wav" [] e = ".Flac" -> ".flac" [] OTHER -> e

\* f.lower().endswith(ACCEPT_EXTS)
endswith_accept(f) == Lower(f.ext) \in ACCEPT_EXTS

\* The URLs a drop may hold: local files of accepted extension in lower and
\* in upper case, a local file of another extension, a URL that is no local
\* file.
Urls ==
    {[local |-> TRUE, name |-> "a", ext |-> ".wav"],
     [local |-> TRUE, name |-> "b", ext |-> ".WAV"],
     [local |-> TRUE, name |-> "c", ext |-> ".txt"],
     [local |-> FALSE, name |-> "d", ext |-> ".wav"]}

\* u.toLocalFile()
toLocalFile(u) == [name |-> u.name, ext |-> u.ext]

\* The mime data of a drop: without URLs, or with a list of at most MaxUrls.
MimeData ==
    {[hasUrls |-> FALSE, urls |-> <<>>]}
        \cup {[hasUrls |-> TRUE, urls |-> u] :
                  u \in UNION {[1..k -> Urls] : k \in 0..MaxUrls}}

\* The elements of a list.
Range(list) == {list[k] : k \in 1..Len(list)}

\* files and picked of dropEvent (lines 42-43).
local_files(urls) ==
    LET isLocalFile(u) == u.local
        loc == SelectSeq(urls, isLocalFile)
    IN  [k \in 1..Len(loc) |-> toLocalFile(loc[k])]

picked_files(urls) == SelectSeq(local_files(urls), endswith_accept)

\* History: list, extended by the paths of more that it does not hold, each
\* once, in their order.
RECURSIVE FirstSeen(_, _)
FirstSeen(list, more) ==
    IF more = <<>> THEN list
    ELSE FirstSeen(IF Head(more) \in Range(list) THEN list ELSE Append(list, Head(more)),
                   Tail(more))

\* _update_label (lines 63-71) on the paths p.
update_label(p) ==
    IF p = <<>> THEN [kind |-> "default", names |-> <<>>]
    ELSE IF allow_multiple THEN [kind |-> "Loaded files:", names |-> p]
    ELSE [kind |-> "Loaded:", names |-> <<p[Len(p)]>>]

\* DropArea.dropEvent (lines 37-56).
dropEvent ==
    /\ n_events < MaxEvents
    /\ n_events' = n_events + 1
    /\ \E data \in MimeData :
           LET picked == picked_files(data.urls) IN
           /\ last_event' = [kind |-> "drop", picked |-> picked,
                             disposition |-> IF data.hasUrls /\ picked # <<>>
                                             THEN "accepted" ELSE "ignored",
                             paths |-> paths, n_emitted |-> n_emitted]
           /\ IF ~data.hasUrls \/ picked = <<>>
              THEN UNCHANGED <<paths, label, n_emitted, seen, last_picked>>
              ELSE /\ paths' = IF allow_multiple
                               THEN LET existing == Range(paths)
                                        fresh(f) == f \notin existing
                                    IN  paths \o SelectSeq(picked, fresh)
                               ELSE <<picked[Len(picked)]>>
                   /\ label' = update_label(paths')
                   /\ n_emitted' = n_emitted + 1
                   /\ seen' = FirstSeen(seen, picked)
                   /\ last_picked' = picked
    /\ UNCHANGED <<request, reference, history, nesting, allow_multiple, pc, i,
                   stem_data, combined, peak, result, total_db, status, box,
                   clicked, raised, written>>

\* DropArea.clear_files (lines 58-61), as the handlers of the Clear buttons
\* call it (lines 425-427, 636-639), which then set the status text.
clear_files ==
    /\ n_events < MaxEvents
    /\ n_events' = n_events + 1
    /\ last_event' = [kind |-> "clear", picked |-> <<>>, disposition |-> "none",
                      paths |-> paths, n_emitted |-> n_emitted]
    /\ paths' = <<>>
    /\ label' = [kind |-> "default", names |-> <<>>]
    /\ n_emitted' = n_emitted + 1
    /\ seen' = <<>>
    /\ last_picked' = <<>>
    /\ status' = "Cleared"
    /\ UNCHANGED <<request, reference, history, nesting, allow_multiple, pc, i,
                   stem_data, combined, peak, result, total_db, box, clicked,
                   raised, written>>

\* A drop area after construction, multi-file or single-file, in a window in
\* which no run was started.
InitDrop ==
    /\ allow_multiple \in BOOLEAN
    /\ Constructed
    /\ mode = "add"
    /\ stems = <<>>
    /\ orig_list = <<>>
    /\ db = 0
    /\ pc = "idle"
    /\ i = 0
    /\ sr = 0
    /\ max_len = 0
    /\ channels = 0
    /\ orig_data = NoArray
    /\ stem_data = NoArray
    /\ combined = NoArray
    /\ peak = 0
    /\ result = NoResult
    /\ total_db = [db |-> 0, less |-> One]
    /\ status = "attribution"
    /\ box = "none"
    /\ clicked = "none"
    /\ raised = NoError
    /\ written = <<>>
    /\ n_loaded = 0
    /\ n_gain = 0
    /\ n_accum = 0
    /\ n_math = 0
    /\ stack = <<>>
    /\ nested = 0

NextDrop ==
    \/ dropEvent
    \/ clear_files

SpecDrop == InitDrop /\ [][NextDrop]_vars
\* ---------------------------------------------- the requests' inputs, read
\* The stem at index k of the request, and the original.
Stem(k) == stems[k]
Original == orig_list[Len(orig_list)]

\* The request is a multi-stem Add Stems run, a Subtract stems run.
MultiAdd == mode = "add" /\ Len(stems) >= 2
Subtract == mode = "sub"

\* The handler is at the check of a stem that the codec decodes.
AtCheck == pc \in {"lv_check", "ss_check"} /\ Stem(i).ok

\* Every file of the request was loaded, checked and combined.
AllCombined ==
    \/ mode = "add" /\ Len(stems) = 1 /\ n_loaded = 1 /\ n_gain = 1
    \/ /\ MultiAdd
       /\ n_loaded = Len(stems)
       /\ n_gain = Len(stems)
       /\ n_accum = Len(stems) - 1
       /\ i = Len(stems) + 1
    \/ /\ Subtract
       /\ n_loaded = Len(stems) + 1
       /\ n_accum = Len(stems)
       /\ i = Len(stems) + 1

\* ----------------------------------------------------------------- claims

\* C1: a request writes exactly one file when its pipeline completes and none
\* when it ends with an error or with a cancel at the clipping box; the write
\* comes last, after every stem was loaded, checked and combined, and what is
\* written is the final buffer.
C1_OneWriteOrNone ==
    /\ Len(written) <= 1
    /\ (pc = "done") <=> (Len(written) = 1)
    /\ (pc \in {"raised", "cancelled"} \/ raised.kind # "none"
            \/ clicked = "cancel_btn") => written = <<>>
    /\ written # <<>> =>
           /\ AllCombined
           /\ written[1].data = result
           /\ written[1].sr = sr

C1_Witness ==
    /\ pc = "done"
    /\ MultiAdd
    /\ Len(stems) = 3
    /\ clicked = "yes_btn"
    /\ Len(written) = 1

\* C2: when the loop of either mode is at a stem whose sample rate differs
\* from the reference rate, the handler raises the sample-rate mismatch that
\* names this stem, its rate and the reference rate; the accumulator is left
\* as it was and the stem is neither converted nor added.
C2_RateMismatchRaises ==
    /\ [][(AtCheck /\ Stem(i).sr # sr) =>
             /\ pc' = "raised"
             /\ raised'.kind = "SampleRateMismatch"
             /\ raised'.idx = i
             /\ raised'.name = Stem(i)
             /\ raised'.got = Stem(i).sr
             /\ raised'.expected = sr
             /\ combined' = combined
             /\ stem_data' = stem_data
             /\ n_accum' = n_accum]_vars
    /\ [](raised.kind = "SampleRateMismatch" =>
             /\ pc = "raised"
             /\ Stem(raised.idx).sr # sr
             /\ written = <<>>)

C2_Witness ==
    /\ raised.kind = "SampleRateMismatch"
    /\ Subtract
    /\ raised.idx = 2
    /\ n_accum = 1

\* C3: when the stems do not share one sample rate, the mismatch is reported
\* before any sample math: no sample of any stem was multiplied by the gain
\* or added to the accumulator.
C3_NoMathBeforeMismatch ==
    raised.kind = "SampleRateMismatch" => n_math = 0
\* The lists that hold the stems of the request in another order.
Orders(list) ==
    {[k \in 1..Len(list) |-> list[q[k]]] : q \in Permutations(1..Len(list))}

\* The sample of file p at frame f, channel c of a buffer of ch channels, as
\* the mono/stereo rules and the zero padding define it: 0 from the file's
\* length on, both channels the mono value, the mean of the two channels.
Reconciled(p, f, c, ch) ==
    IF f > p.len THEN 0
    ELSE IF p.ch = ch THEN Content(p, f, c) * One
    ELSE IF p.ch = 1 THEN Content(p, f, 1) * One
    ELSE ((Content(p, f, 1) + Content(p, f, 2)) * One) \div 2

\* The sum over the first n stems of the stem's sample at frame f, channel c
\* of a buffer of ch channels, each times the gain g (in thousandths).
RECURSIVE StemSum(_, _, _, _, _)
StemSum(n, f, c, ch, g) ==
    IF n = 0 THEN 0
    ELSE (Reconciled(Stem(n), f, c, ch) * g) \div 1000 + StemSum(n - 1, f, c, ch, g)

\* The longest of the first n stems.
RECURSIVE LongestOf(_)
LongestOf(n) ==
    IF n = 0 THEN 0
    ELSE IF Stem(n).len > LongestOf(n - 1) THEN Stem(n).len ELSE LongestOf(n - 1)

\* C4 as stated: when the loop of a multi-stem Add Stems run has ended, the
\* combined buffer (frames, channels, samples) is the one the run yields for
\* every order of the same stems.
C4_AnyOrderSameBuffer ==
    (MultiAdd /\ pc = "lv_peak") =>
        \A list \in Orders(stems) :
            LET m == additive_mix(list, db) IN
            m.err.kind = "none" /\ m.combined = combined

\* C4 as amended: the combined buffer is the same for every order of the stems
\* that keeps a stem of the first stem's channel count in first place.
C4_SameBufferSameReference ==
    (MultiAdd /\ pc = "lv_peak") =>
        \A list \in Orders(stems) :
            list[1].ch = Stem(1).ch =>
                LET m == additive_mix(list, db) IN
                m.err.kind = "none" /\ m.combined = combined

C4_Witness ==
    /\ MultiAdd
    /\ pc = "lv_peak"
    /\ Len(stems) = 3
    /\ Stem(1).ch = 2 /\ Stem(2).ch = 1 /\ Stem(3).ch = 2
    /\ Stem(1).len = 1 /\ Stem(2).len = MaxFrames /\ Stem(3).len = 1
    /\ Stem(2).amp = 1 /\ Stem(3).amp = 1
    /\ db = -1

\* C5: in a multi-stem Add Stems run the combined buffer is as long as the
\* longest stem folded in so far, every frame of it is the sum over these
\* stems of gain times the stem's frame (0 from the stem's own length on), and
\* a fold never shortens or changes what was accumulated before it other
\* than by adding the stem.
C5_LengthGrowsSumKept ==
    /\ [](MultiAdd /\ i >= 2 =>
             /\ shape0(combined) = LongestOf(i - 1)
             /\ max_len = LongestOf(i - 1)
             /\ shape1(combined) = Stem(1).ch
             /\ \A f \in 1..shape0(combined), c \in 1..shape1(combined) :
                    combined.fr[f][c] = StemSum(i - 1, f, c, Stem(1).ch, Gain(db)))
    /\ [][MultiAdd /\ pc = "lv_fold" =>
             /\ shape0(combined') >= shape0(combined)
             /\ \A f \in 1..shape0(combined), c \in 1..shape1(combined) :
                    combined'.fr[f][c] =
                        combined.fr[f][c]
                        + (Reconciled(Stem(i), f, c, Stem(1).ch) * Gain(db)) \div 1000]_vars

C5_Witness ==
    /\ MultiAdd
    /\ pc = "lv_peak"
    /\ Len(stems) = 3
    /\ Stem(1).len = 1 /\ Stem(2).len = MaxFrames /\ Stem(3).len = 1
    /\ Stem(1).amp = 1 /\ Stem(2).amp = 1 /\ Stem(3).amp = 1
    /\ shape0(combined) = MaxFrames
    /\ db = -6
\* C6: in a Subtract stems run the accumulator and the result have exactly
\* the original's frame count after every stem; a stem contributes its first
\* len(original) frames and 0 from its own length on; the reference length
\* stays the original's.
C6_OriginalLengthKept ==
    /\ [](Subtract /\ i >= 1 =>
             /\ max_len = Original.len
             /\ shape0(combined) = Original.len
             /\ shape1(combined) = Original.ch
             /\ \A f \in 1..Original.len, c \in 1..Original.ch :
                    combined.fr[f][c] = StemSum(i - 1, f, c, Original.ch, 1000))
    /\ [](Subtract /\ pc \in {"ss_clip", "ss_write", "done"} =>
             Len(result.fr) = Original.len)
    /\ [][Subtract /\ pc \notin {"idle", "ss_orig"} => max_len' = max_len]_vars

C6_Witness ==
    /\ Subtract
    /\ pc = "ss_combine"
    /\ Original.len = 1
    /\ Len(stems) = 2
    /\ Stem(1).len = MaxFrames /\ Stem(1).amp = 1
    /\ Stem(2).len = 0

\* C7: a stem that passed its checks is reconciled to the reference channel
\* count: a mono stem against a stereo reference has the mono value in both
\* channels of every frame; a stereo stem against a mono reference has the
\* mean of its two channels in every frame; a stem of the reference's channel
\* count is as it was loaded.
C7_ChannelReconciliation ==
    pc \in {"lv_fold", "ss_fold"} =>
        /\ shape0(stem_data) = Stem(i).len
        /\ shape1(stem_data) = channels
        /\ (Stem(i).ch = 1 /\ channels = 2) =>
               \A f \in 1..Stem(i).len :
                   stem_data.fr[f] = <<Content(Stem(i), f, 1) * One,
                                       Content(Stem(i), f, 1) * One>>
        /\ (Stem(i).ch = 2 /\ channels = 1) =>
               \A f \in 1..Stem(i).len :
                   2 * stem_data.fr[f][1] =
                       Content(Stem(i), f, 1) * One + Content(Stem(i), f, 2) * One
        /\ Stem(i).ch = channels =>
               \A f \in 1..Stem(i).len, c \in 1..channels :
                   stem_data.fr[f][c] = Content(Stem(i), f, c) * One

C7_Witness ==
    /\ pc = "lv_fold"
    /\ channels = 1
    /\ Stem(i).ch = 2
    /\ Stem(i).len = MaxFrames
    /\ Stem(i).amp = 1

\* C8: when the loop of either mode is at the channel check of a stem (its
\* sample rate is the reference's) whose channel count differs from the
\* reference's and the pair is neither mono against stereo nor stereo against
\* mono, the handler raises the channel mismatch that names this stem; the
\* stem is not added and nothing is written.
C8_ChannelMismatchRaises ==
    /\ [][(/\ AtCheck
           /\ Stem(i).sr = sr
           /\ Stem(i).ch # channels
           /\ ~(Stem(i).ch = 1 /\ channels = 2)
           /\ ~(Stem(i).ch = 2 /\ channels = 1)) =>
             /\ pc' = "raised"
             /\ raised'.kind = "ChannelMismatch"
             /\ raised'.idx = i
             /\ raised'.name = Stem(i)
             /\ combined' = combined
             /\ n_accum' = n_accum
             /\ written' = <<>>]_vars
    /\ [](raised.kind = "ChannelMismatch" => pc = "raised" /\ written = <<>>)

C8_Witness ==
    /\ raised.kind = "ChannelMismatch"
    /\ MultiAdd
    /\ channels = 3
    /\ raised.name.ch = 1
    /\ raised.idx = 3

\* C9: in a Subtract stems run, before the clip guard, every sample of the
\* result is the original's sample minus the sum over all stems of the
\* reconciled, length-aligned stem sample, each stem at gain 1, whatever gain
\* is selected on the Add Stems tab.
C9_SubtractionAtUnitGain ==
    (Subtract /\ pc = "ss_clip") =>
        /\ result.den = One
        /\ result.ch = Original.ch
        /\ Len(result.fr) = Original.len
        /\ \A f \in 1..Original.len, c \in 1..Original.ch :
               result.fr[f][c] =
                   Content(Original, f, c) * One
                   - StemSum(Len(stems), f, c, Original.ch, 1000)
        /\ n_gain = 0

C9_Witness ==
    /\ Subtract
    /\ pc = "ss_clip"
    /\ db = -6
    /\ Len(stems) = 2
    /\ Original.ch = 2 /\ Original.amp = 1 /\ Original.len = MaxFrames
    /\ Stem(1).ch = 1 /\ Stem(1).amp = 1
    /\ Stem(2).ch = 2 /\ Stem(2).amp = 1 /\ Stem(2).len = 1

\* The largest |sample| of a buffer for the writer is at most full scale.
WithinFullScale(data) ==
    \A f \in 1..Len(data.fr), c \in 1..data.ch : Abs(data.fr[f][c]) <= data.den

\* The peak of original minus stems, before the clip guard.
SubtractionPeak ==
    SetMax({Abs(Content(Original, f, c) * One
                - StemSum(Len(stems), f, c, Original.ch, 1000)) :
            f \in 1..Original.len, c \in 1..Original.ch})

\* C10: the clip guard of a Subtract stems run is automatic: the result is
\* divided by its peak exactly when the peak is above 1.0 and is written as it
\* is otherwise; the clipping box is never shown on this path; the buffer the
\* writer gets is never above full scale.
C10_AutomaticClipGuard ==
    /\ (Subtract /\ pc \in {"ss_write", "done"}) =>
           /\ peak = SubtractionPeak
           /\ result.den = (IF SubtractionPeak > One THEN SubtractionPeak ELSE One)
           /\ \A f \in 1..Original.len, c \in 1..Original.ch :
                  result.fr[f][c] =
                      Content(Original, f, c) * One
                      - StemSum(Len(stems), f, c, Original.ch, 1000)
    /\ Subtract =>
           /\ box # "Audio Clipping Detected"
           /\ clicked = "none"
           /\ pc # "lv_prompt"
           /\ \A k \in 1..Len(written) :
                  written[k].data = result /\ WithinFullScale(written[k].data)

C10_Witness ==
    /\ Subtract
    /\ pc = "done"
    /\ peak > One
    /\ result.den = peak
    /\ Len(written) = 1

\* The peak of the mix of a multi-stem Add Stems run, from its stems: the
\* largest |sum over the stems of gain times the reconciled sample|.
MixPeak ==
    SetMax({Abs(StemSum(Len(stems), f, c, Stem(1).ch, Gain(db))) :
            f \in 1..LongestOf(Len(stems)), c \in 1..Stem(1).ch})

\* C11: in a multi-stem Add Stems run the clipping box is shown exactly when
\* the peak measured on the combined buffer is above 1.0, and only after every
\* stem was combined; the box closes in one of three ways: normalize (the
\* buffer over its peak is written), allow clipping (the combined buffer is
\* written as it is, samples above full scale included), cancel (nothing is
\* written); with a peak of at most 1.0 the combined buffer is written as it
\* is and no box is shown.  The peak is the one of a buffer that has a sample:
\* np.max of a mix without frames raises before any peak exists.
C11_ClipDecision ==
    /\ [][(MultiAdd /\ pc = "lv_peak" /\ np_size(combined) > 0) =>
             /\ AllCombined
             /\ peak' = MixPeak
             /\ IF MixPeak > One
                THEN /\ pc' = "lv_prompt"
                     /\ box' = "Audio Clipping Detected"
                     /\ written' = <<>>
                ELSE /\ pc' = "lv_write"
                     /\ result' = [ch |-> combined.ch, fr |-> combined.fr, den |-> One]
                     /\ box' = "none"
                     /\ clicked' = "none"]_vars
    /\ [][pc = "lv_prompt" =>
             \/ /\ clicked' = "yes_btn"
                /\ pc' = "lv_write"
                /\ result' = [ch |-> combined.ch, fr |-> combined.fr, den |-> peak]
             \/ /\ clicked' = "no_btn"
                /\ pc' = "lv_write"
                /\ result' = [ch |-> combined.ch, fr |-> combined.fr, den |-> One]
             \/ /\ clicked' = "cancel_btn"
                /\ pc' = "cancelled"
                /\ written' = <<>>]_vars
    /\ [][(MultiAdd /\ pc = "lv_write") =>
             /\ pc' = "done"
             /\ written' = <<[data |-> result, sr |-> Stem(1).sr]>>
             /\ clicked' = clicked]_vars
    /\ []((pc = "lv_prompt" \/ clicked # "none" \/ box = "Audio Clipping Detected") =>
             /\ MultiAdd
             /\ AllCombined
             /\ peak = MixPeak
             /\ peak > One)
    /\ []((MultiAdd /\ pc = "done" /\ clicked = "none") =>
             /\ peak = MixPeak
             /\ peak <= One
             /\ box = "none")
    /\ [](clicked = "cancel_btn" => (pc = "cancelled" /\ written = <<>>))
    /\ [](pc = "cancelled" => clicked = "cancel_btn")

C11_Witness ==
    /\ MultiAdd
    /\ pc = "done"
    /\ clicked = "no_btn"
    /\ Len(stems) = 3
    /\ Len(written) = 1
    /\ written[1].data.fr = combined.fr
    /\ ~WithinFullScale(written[1].data)

\* C12: an Add Stems run on a single stem writes, for every frame and channel,
\* the input sample times the gain 10^(gain_db/20), with the input's frame
\* count, channel count and sample rate; no peak is measured, no clipping box
\* is shown and nothing is divided by a peak, also when the scaled samples are
\* above 1.0.
C12_SingleStemGainOnly ==
    (mode = "add" /\ Len(stems) = 1) =>
        /\ pc \in {"idle", "lv_single", "done", "raised"}
        /\ peak = 0
        /\ total_db = [db |-> 0, less |-> One]
        /\ box \in {"none", "Success"}
        /\ clicked = "none"
        /\ pc = "done" =>
               /\ Len(written) = 1
               /\ written[1].sr = Stem(1).sr
               /\ written[1].data.ch = Stem(1).ch
               /\ Len(written[1].data.fr) = Stem(1).len
               /\ written[1].data.den = One
               /\ \A f \in 1..Stem(1).len, c \in 1..Stem(1).ch :
                      written[1].data.fr[f][c] =
                          (Content(Stem(1), f, c) * One * Gain(db)) \div 1000

C12_Witness ==
    /\ mode = "add"
    /\ Len(stems) = 1
    /\ pc = "done"
    /\ db = -1
    /\ Stem(1).amp = 2
    /\ Len(written) = 1
    /\ ~WithinFullScale(written[1].data)

\* C13: the gain a multi-stem Add Stems run reports and names its output by
\* is the selected gain less the reduction 20*log10(peak) exactly when the
\* clipping box was shown and normalization was chosen; in every other case
\* (no box, or clipping allowed) it is the selected gain.  total_db.less is
\* the peak whose 20*log10 was taken off, 1.0 for none.
C13_EffectiveGain ==
    (MultiAdd /\ pc \in {"lv_write", "done"}) =>
        /\ total_db.db = db
        /\ (clicked = "yes_btn") <=> (total_db.less # One)
        /\ clicked = "yes_btn" =>
               /\ total_db.less = MixPeak
               /\ MixPeak > One
               /\ box = "Audio Clipping Detected"
        /\ clicked # "yes_btn" => total_db = [db |-> db, less |-> One]

C13_Witness ==
    /\ MultiAdd
    /\ pc = "done"
    /\ clicked = "yes_btn"
    /\ db = -6
    /\ total_db = [db |-> -6, less |-> peak]
    /\ peak > One

\* The run divided its buffer by the peak: the Yes button of the clipping box
\* of a multi-stem Add Stems run, the clip guard of a Subtract stems run.
Normalized ==
    \/ MultiAdd /\ clicked = "yes_btn"
    \/ Subtract /\ peak > One

\* The sample at frame f, channel c of the buffer before normalization, from
\* the inputs: the sum of the stems at the gain, the original less the stems.
Unnormalized(f, c) ==
    IF Subtract
    THEN Content(Original, f, c) * One - StemSum(Len(stems), f, c, Original.ch, 1000)
    ELSE StemSum(Len(stems), f, c, Stem(1).ch, Gain(db))

\* C14: whenever a run normalizes (by the choice at the clipping box of an Add
\* Stems run, automatically in a Subtract stems run), every written sample is
\* the combined sample over the peak measured on the combined buffer: the
\* written peak is exactly 1.0, no sample is above it, and the signs and the
\* proportions of the samples are those of the combined buffer.
C14_NormalizedToFullScale ==
    (pc = "done" /\ Normalized) =>
        LET w == written[1].data
            pk == IF Subtract THEN SubtractionPeak ELSE MixPeak
        IN  /\ w.ch = channels
            /\ Len(w.fr) = max_len
            /\ \A f \in 1..Len(w.fr), c \in 1..w.ch : w.fr[f][c] = Unnormalized(f, c)
            /\ w.den = pk
            /\ pk = peak
            /\ pk > One
            /\ \A f \in 1..Len(w.fr), c \in 1..w.ch : Abs(w.fr[f][c]) <= w.den
            /\ \E f \in 1..Len(w.fr), c \in 1..w.ch : Abs(w.fr[f][c]) = w.den

C14_Witness ==
    /\ pc = "done"
    /\ MultiAdd
    /\ clicked = "yes_btn"
    /\ channels = 2
    /\ max_len = MaxFrames
    /\ written[1].data.den = peak
    /\ \E f \in 1..max_len, c \in 1..2 :
           /\ written[1].data.fr[f][c] < 0
           /\ -written[1].data.fr[f][c] < peak

\* The buffer a run combined has a sample and all its samples are 0.
Silent ==
    IF Subtract
    THEN SubtractionPeak = 0
    ELSE LongestOf(Len(stems)) > 0 /\ MixPeak = 0

\* C15: when the combined buffer is all zeros (peak 0), in either mode, the
\* run goes on to write and completes; the written buffer is all zeros as it
\* was combined, no clipping box is shown, nothing is normalized and no
\* division by the peak is made.
C15_SilenceIsWritten ==
    /\ [][(MultiAdd /\ pc = "lv_peak" /\ Silent) =>
             /\ pc' = "lv_write"
             /\ peak' = 0
             /\ result' = [ch |-> combined.ch, fr |-> combined.fr, den |-> One]
             /\ box' = "none"]_vars
    /\ [][(Subtract /\ pc = "ss_clip" /\ Silent) =>
             /\ pc' = "ss_write"
             /\ peak = 0
             /\ result' = [ch |-> result.ch, fr |-> result.fr, den |-> One]]_vars
    /\ [][(pc \in {"lv_write", "ss_write"} /\ peak = 0) =>
             /\ pc' = "done"
             /\ written' = <<[data |-> result, sr |-> sr]>>]_vars
    /\ []((pc = "done" /\ (MultiAdd \/ Subtract) /\ Silent) =>
             /\ peak = 0
             /\ Len(written) = 1
             /\ written[1].data.den = One
             /\ written[1].data.ch = channels
             /\ Len(written[1].data.fr) = max_len
             /\ \A f \in 1..max_len, c \in 1..channels : written[1].data.fr[f][c] = 0
             /\ clicked = "none"
             /\ box # "Audio Clipping Detected"
             /\ raised = NoError)

C15_Witness ==
    /\ Subtract
    /\ pc = "done"
    /\ peak = 0
    /\ Original.amp = 1
    /\ Original.len = MaxFrames
    /\ Len(stems) = 2
    /\ Len(written) = 1
    /\ written[1].data.den = One

\* The run has no inputs: no stem, or (Subtract stems) no original.
NoInputs ==
    \/ stems = <<>>
    \/ Subtract /\ orig_list = <<>>

\* C16: a run without inputs (Add Stems with an empty stem list, Subtract
\* stems with an empty stem list or without an original) raises the
\* no-inputs error as its first step: no file was loaded, nothing is written,
\* and the lists of the drop areas are as they were; no other run raises it.
C16_NoInputsFailFirst ==
    /\ [][(pc = "idle" /\ NoInputs) =>
             /\ pc' = "raised"
             /\ raised'.exc = "RuntimeError"
             /\ raised'.kind = "NoInputsProvided"
             /\ n_loaded' = 0
             /\ written' = <<>>
             /\ stems' = stems
             /\ orig_list' = orig_list]_vars
    /\ [][(pc = "idle" /\ ~NoInputs) => pc' \in {"lv_single", "lv_first", "ss_orig"}]_vars
    /\ [](raised.kind = "NoInputsProvided" =>
             /\ NoInputs
             /\ pc = "raised"
             /\ history = <<0, 0, 0, 0>>
             /\ reference = <<0, 0, 0, NoArray>>
             /\ written = <<>>)
    /\ [](NoInputs => pc \in {"idle", "raised"})

C16_Witness ==
    /\ Subtract
    /\ raised.kind = "NoInputsProvided"
    /\ Len(stems) = 2
    /\ orig_list = <<>>
    /\ n_loaded = 0

\* C17: a Subtract stems run whose original decodes to zero frames raises
\* the empty-input error, a ValueError that names the original, right after
\* the original was loaded: no stem was loaded and nothing is written.
C17_EmptyOriginalRaises ==
    /\ [][(pc = "ss_orig" /\ Original.ok /\ Original.len = 0) =>
             /\ pc' = "raised"
             /\ raised'.exc = "ValueError"
             /\ raised'.kind = "EmptyInput"
             /\ raised'.name = Original
             /\ n_loaded' = 1
             /\ stem_data' = NoArray
             /\ written' = <<>>]_vars
    /\ [](raised.kind = "EmptyInput" =>
             /\ Subtract
             /\ Original.ok
             /\ Original.len = 0
             /\ pc = "raised"
             /\ n_loaded = 1
             /\ n_accum = 0
             /\ n_math = 0
             /\ stem_data = NoArray
             /\ written = <<>>)
    /\ []((Subtract /\ ~NoInputs /\ Original.ok /\ Original.len = 0) =>
             pc \in {"idle", "ss_orig", "raised"})

C17_Witness ==
    /\ Subtract
    /\ raised.kind = "EmptyInput"
    /\ Len(stems) = 2
    /\ Stem(1).ok
    /\ Stem(1).len = MaxFrames
    /\ n_loaded = 1

\* The file that gives a run its reference: the first stem of a multi-stem
\* Add Stems run, the original of a Subtract stems run.
ReferenceFile == IF Subtract THEN Original ELSE Stem(1)

\* The reference of the run is set: its file was loaded.
ReferenceSet ==
    \/ MultiAdd /\ i >= 2
    \/ Subtract /\ i >= 1

\* C18: from the load of the first stem (multi-stem Add Stems) or of the
\* original (Subtract stems) on, the reference sample rate and channel count
\* are those of that file and stay so while later stems are folded in; every
\* later stem that is folded has the reference rate and was reconciled to the
\* reference channel count, whatever the stem before it was; a mismatch is
\* reported against the reference rate; the written output has the
\* reference's rate and channel count.
C18_FixedReference ==
    ReferenceSet =>
        /\ sr = ReferenceFile.sr
        /\ channels = ReferenceFile.ch
        /\ shape1(combined) = ReferenceFile.ch
        /\ pc \in {"lv_fold", "ss_fold"} =>
               /\ Stem(i).sr = ReferenceFile.sr
               /\ shape1(stem_data) = ReferenceFile.ch
        /\ raised.kind = "SampleRateMismatch" =>
               /\ raised.expected = ReferenceFile.sr
               /\ raised.got # ReferenceFile.sr
        /\ raised.kind = "ChannelMismatch" =>
               /\ Stem(raised.idx).ch # ReferenceFile.ch
               /\ {Stem(raised.idx).ch, ReferenceFile.ch} # {1, 2}
        /\ \A k \in 1..Len(written) :
               /\ written[k].sr = ReferenceFile.sr
               /\ written[k].data.ch = ReferenceFile.ch

C18_Witness ==
    /\ MultiAdd
    /\ pc = "lv_fold"
    /\ i = 3
    /\ Stem(1).ch = 2
    /\ Stem(2).ch = 1
    /\ Stem(3).ch = 1
    /\ shape1(stem_data) = 2
    /\ channels = 2

\* The index of the first stem that the loop of the run handles.
FirstLoop == IF Subtract THEN 1 ELSE 2

\* What is wrong with stem k against the reference of the run: it does not
\* decode, its rate differs, its channel count cannot be reconciled; a stem
\* with the wrong rate and the wrong channel count has the wrong rate.
StemFault(k) ==
    IF ~Stem(k).ok THEN "DecodeFailure"
    ELSE IF Stem(k).sr # ReferenceFile.sr THEN "SampleRateMismatch"
    ELSE IF Stem(k).ch # ReferenceFile.ch /\ {Stem(k).ch, ReferenceFile.ch} # {1, 2}
    THEN "ChannelMismatch"
    ELSE "none"

\* C19: the loop takes the stems in input order and stops at the first
\* invalid one: the error names the invalid stem of lowest index and says
\* what is wrong with it, the rate for a stem with the wrong rate and the
\* wrong channel count; the stems before it, and no other, were folded in; no
\* stem after it was loaded; a run that gets past the loop has no invalid
\* stem.
C19_FirstInvalidStemStops ==
    /\ (ReferenceSet /\ pc \in {"lv_check", "ss_check", "lv_fold", "ss_fold"}) =>
           /\ i \in FirstLoop..Len(stems)
           /\ n_accum = i - FirstLoop
           /\ \A j \in FirstLoop..(i - 1) : StemFault(j) = "none"
           /\ n_loaded = (i - 1) + (IF Subtract THEN 1 ELSE 0)
                              + (IF pc \in {"lv_fold", "ss_fold"} THEN 1 ELSE 0)
    /\ (ReferenceSet /\ pc = "raised" /\ i <= Len(stems)) =>
           /\ raised.idx = i
           /\ raised.name = Stem(i)
           /\ raised.kind = StemFault(i)
           /\ raised.kind # "none"
           /\ \A j \in FirstLoop..(i - 1) : StemFault(j) = "none"
           /\ n_accum = i - FirstLoop
           /\ n_loaded = (i - 1) + (IF Subtract THEN 1 ELSE 0)
                              + (IF Stem(i).ok THEN 1 ELSE 0)
           /\ written = <<>>
    /\ (ReferenceSet /\ i > Len(stems)) =>
           /\ \A j \in FirstLoop..Len(stems) : StemFault(j) = "none"
           /\ n_accum = Len(stems) - FirstLoop + 1

C19_Witness ==
    /\ MultiAdd
    /\ pc = "raised"
    /\ Len(stems) = 3
    /\ raised.idx = 2
    /\ raised.kind = "SampleRateMismatch"
    /\ Stem(2).ch = 3
    /\ Stem(1).ch = 1
    /\ ~Stem(3).ok
    /\ n_loaded = 2

\* The runs that have started and not ended: the suspended handlers and the
\* handler that is executing.
RunsInProgress ==
    Len(stack) + (IF pc \in {"idle", "done", "cancelled", "raised"} THEN 0 ELSE 1)

\* C20: at most one run is in progress at any time: no run (of either tab)
\* starts after another has started and before that one has ended, also not
\* while the other is inside a status update that processes pending events.
C20_OneRunAtATime == RunsInProgress <= 1

\* The texts set_status shows while a run is in one of its phases.
PhaseTexts ==
    {"Lowering volume", "Adding stems", "Loading original...",
     "Loading and summing stems...",
     "Phase inverting stems and combining with original...", "Writing output..."}

\* C21: after an error has ended a run the error is shown to the user (the
\* error box of error_box) and the status label is in the error state, not at
\* the text of an in-progress phase.
C21_ErrorsSurfaced ==
    pc = "raised" =>
        /\ box = "Error"
        /\ status = "Error."
        /\ status \notin PhaseTexts

\* A multi-file drop area holds no path twice.
NoPathTwice ==
    allow_multiple =>
        \A a, b \in 1..Len(paths) : a # b => paths[a] # paths[b]

\* A multi-file drop area holds the paths accepted since the last clear, in
\* the order in which each was dropped first.
FirstDropOrder ==
    allow_multiple =>
        /\ Range(paths) = Range(seen)
        /\ FirstSeen(<<>>, paths) = seen

\* A single-file drop area holds at most one path, the last accepted file of
\* the most recent accepted drop.
SingleHoldsLast ==
    ~allow_multiple =>
        /\ Len(paths) <= 1
        /\ paths = IF last_picked = <<>> THEN <<>>
                   ELSE <<last_picked[Len(last_picked)]>>

\* Every held path has an extension of the allow-list, whatever its case.
HeldAccepted ==
    \A k \in 1..Len(paths) : Lower(paths[k].ext) \in ACCEPT_EXTS

\* A drop without an accepted file left the list as it was and emitted no
\* files_changed.
RejectedDropNoChange ==
    (last_event.kind = "drop" /\ last_event.picked = <<>>) =>
        /\ paths = last_event.paths
        /\ n_emitted = last_event.n_emitted
        /\ last_event.disposition = "ignored"

\* A clear left the list empty.
ClearEmpties == last_event.kind = "clear" => paths = <<>>

\* C22: after any sequence of drops and clears on a drop area: a multi-file
\* area holds no path twice and keeps its paths in first-drop order; a
\* single-file area holds at most one path, the last accepted file of the
\* most recent accepted drop; every held path has an allow-listed extension;
\* a drop without an accepted file changes nothing and emits no change
\* signal; a clear empties the list.
C22_DropAreaInvariants ==
    /\ NoPathTwice
    /\ FirstDropOrder
    /\ SingleHoldsLast
    /\ HeldAccepted
    /\ RejectedDropNoChange
    /\ ClearEmpties

====
